---- MODULE Spec2Model ----
(***************************************************************************)
(* Semantic-search MCP server of slack_hardware_assistant:                 *)
(*   - embed_and_upsert / _upsert_message against the vector store,        *)
(*   - search_similar and its scoring / ranking loop.                      *)
(* Source: src/mcp/semantic_search_mcp/semantic_search_mcp_server.py and   *)
(* src/mcp/semantic_search_mcp/vector_db.py.                               *)
(***************************************************************************)
EXTENDS Integers, Sequences, FiniteSets, TLC

VARIABLES
    weaviate_client,  \* module global read by the handlers: "unbound" | "bound"
    notFoundText,     \* text the store puts in its 404 error (fixed per store build)
    store,            \* vector store collection "Message": uuid -> properties
    call,             \* per worker: the embed_and_upsert request being handled
    search,           \* the search_similar request handled last and its outcome
    ranked,           \* the scoring / ranking loop applied to a candidate list
    boot,             \* the run of vector_db.init_weaviate
    fetch,            \* the over-fetch limit computed for a request's top_k
    slack             \* a run of SlackDataClient._call_with_retry

upsertVars == <<weaviate_client, notFoundText, store, call>>
searchVars == <<search, ranked>>
bootVars == <<boot>>
fetchVars == <<fetch>>
slackVars == <<slack>>

----------------------------------------------------------------------------
(* Bounds *)

MaxBatch == 2
MaxHits == 3
MaxTopK == 2
\* scores and weights are multiples of 1 / ScoreScale
ScoreScale == 10
MaxRetries == 3
MaxRateLimited == 2

----------------------------------------------------------------------------
(* Values *)

\* Optional[T]: None is the empty sequence, a value x is <<x>>
None == <<>>
Some(x) == <<x>>

\* replies of the store: success, or an error with a category and a text
StoreError(cat, txt) == [category |-> cat, text |-> txt]
Ok == StoreError("ok", <<>>)
NoFault == StoreError("no_fault", <<>>)

\* no response yet / the body of an HTTPException carries no count
NoResponse == [status |-> 0, upserted_count |-> -1]
HttpError(code) == [status |-> code, upserted_count |-> -1]

Procs == {1, 2}
Sequential == {1}

\* Error texts are sequences of characters, so that the substring tests of
\* _upsert_message are computed and not assumed.
Txt404 == <<"4", "0", "4">>
TxtNotFound == <<"N", "o", "t", " ", "F", "o", "u", "n", "d">>
TxtGone == <<"g", "o", "n", "e">>
TxtTimeout == <<"t", "i", "m", "e", "o", "u", "t">>
TxtShard == <<"5", "0", "0", " ", "s", "h", "a", "r", "d", " ",
              "n", "o", "t", " ", "f", "o", "u", "n", "d">>
TxtLatency == <<"4", "0", "4", "0", " ", "m", "s">>
TxtExists == <<"4", "2", "2">>

\* what a store build may print for "object does not exist"
NotFoundTexts == {Txt404, TxtNotFound, TxtGone}
\* what the other store errors (timeouts, 5xx, connection errors) may print
OtherTexts == {TxtTimeout, TxtShard, TxtLatency}

Faults == {NoFault} \cup {StoreError("other", t) : t \in OtherTexts}

MessageInput(mid, ch, txt, t, tp) ==
    [message_id |-> mid, workspace_id |-> "W1", channel_id |-> ch,
     user_id |-> "U1", text |-> txt, ts |-> t, topics |-> tp]

Messages ==
    { MessageInput("m1", "C1", "a", 1, None),
      MessageInput("m2", "C1", "b", 1, Some(<<"pcb">>)),
      MessageInput("m3", "C1", "a", 2, Some(<<>>)),
      MessageInput("m4", "C2", "a", 1, None) }

RECURSIVE SeqsUpTo(_, _)
SeqsUpTo(S, n) ==
    IF n = 0 THEN {<<>>}
    ELSE LET shorter == SeqsUpTo(S, n - 1)
         IN  shorter \cup { Append(s, x) : s \in shorter, x \in S }

Batches == SeqsUpTo(Messages, MaxBatch)

----------------------------------------------------------------------------
(* Pure helpers of _upsert_message *)

LowerChar(c) ==
    CASE c = "N" -> "n"
      [] c = "F" -> "f"
      [] OTHER -> c

\* str.lower()
Lower(s) == [k \in 1..Len(s) |-> LowerChar(s[k])]

\* Python's `sub in s`
Contains(s, sub) ==
    \E k \in 1..(Len(s) - Len(sub) + 1) : SubSeq(s, k, k + Len(sub) - 1) = sub

\* line 110: f"{msg.channel_id}:{msg.ts}"
\* the text made part of the key
slack_key_with_text(msg) == [channel_id |-> msg.channel_id, ts |-> msg.ts, text |-> msg.text]

\* the Slack message_id used as the key
slack_key_by_message_id(msg) == [channel_id |-> msg.message_id, ts |-> 0]

slack_key(msg) == [channel_id |-> msg.channel_id, ts |-> msg.ts]

\* line 111: uuid5(NAMESPACE_URL, slack_key), a fixed function of the key
weaviate_id(key) == [uuid5 |-> key]

\* lines 113-121: the property dict, `msg.topics or []`
UpsertData(msg) ==
    [message_id |-> msg.message_id, workspace_id |-> msg.workspace_id,
     channel_id |-> msg.channel_id, user_id |-> msg.user_id,
     text |-> msg.text, ts |-> msg.ts,
     topics |-> IF msg.topics = None \/ msg.topics[1] = <<>> THEN <<>> ELSE msg.topics[1]]

\* line 141: the test that selects the insert fallback
IsNotFoundMessage(msg_text) ==
    Contains(msg_text, Txt404) \/ Contains(Lower(msg_text), Lower(TxtNotFound))

\* a fall-through to the insert after a successful update
AfterUpdateFallThrough(reply) ==
    IF reply = Ok THEN "insert"
    ELSE IF IsNotFoundMessage(reply.text) THEN "insert"
    ELSE "raise"

\* lines 129-154: what follows the reply of collection.data.update
AfterUpdate(reply) ==
    IF reply = Ok THEN "next"
    ELSE IF IsNotFoundMessage(reply.text) THEN "insert"
    ELSE "raise"

----------------------------------------------------------------------------
(* The vector store, as seen through collection.data.update / insert *)

UpdateReply(st, id, fault, nfText) ==
    IF fault # NoFault THEN fault
    ELSE IF id \notin DOMAIN st THEN StoreError("not_found", nfText)
    ELSE Ok

InsertReply(st, id, fault) ==
    IF fault # NoFault THEN fault
    ELSE IF id \in DOMAIN st THEN StoreError("already_exists", TxtExists)
    ELSE Ok

\* a write that keeps the fields already stored
WriteIfAbsent(st, id, data) == IF id \in DOMAIN st THEN st ELSE (id :> data) @@ st

Write(st, id, data) == (id :> data) @@ st

----------------------------------------------------------------------------
(* search_similar: requests, raw hits, scores *)

\* line 437
SecondsPerDay == 86400

\* line 71: the largest top_k a request may carry
TopKLimit == 100

\* vector_db.py line 78: delay, in seconds
Delay == 2

\* time.time() at line 436
Nows == {3 * SecondsPerDay}

\* a value of a JSON dict: a number, null, or a non-numeric string
Num(v) == [kind |-> "num", v |-> v]
Null == [kind |-> "null", v |-> 0]
Str == [kind |-> "str", v |-> 0]

\* lines 50-84: the fields SearchRequest declares (workspace_id is commented out)
SearchRequest(q, tp, days, k, ms, rw) ==
    [user_id |-> None, query |-> q, topics |-> tp, timeframe_days |-> days,
     top_k |-> k, min_score |-> ms, recency_weight |-> rw]

Queries == {None, Some(""), Some("pcb")}
TopicLists == {None, Some(<<>>), Some(<<"pcb">>)}
TimeframeDays == {1, 2}
TopKs == 1..MaxTopK
MinScores == {0, 3, ScoreScale}
RecencyWeights == {0, ScoreScale \div 2, ScoreScale}

SearchRequests ==
    { SearchRequest(q, tp, days, k, ms, rw) :
        q \in Queries, tp \in TopicLists, days \in TimeframeDays,
        k \in TopKs, ms \in MinScores, rw \in RecencyWeights }

\* Python truthiness of an Optional[str] and of an Optional[List[str]]
TruthyStr(opt) == opt # None /\ opt[1] # ""
TruthyList(opt) == opt # None /\ opt[1] # <<>>

\* attribute lookup on the request object
HasAttr(req, name) == name \in DOMAIN req

\* the _additional dicts and timestamps the store reports; the certainty is
\* the store's normalised metric (0..1) or null
HitKinds ==
    { [additional |-> [certainty |-> Num(ScoreScale - 1), distance |-> Num(2)], age |-> Some(0)],
      [additional |-> [certainty |-> Num(ScoreScale - 1), distance |-> Num(2)],
       age |-> Some(SecondsPerDay \div 2)],
      [additional |-> [certainty |-> Num(2)], age |-> Some(0)],
      [additional |-> [certainty |-> Num(ScoreScale), distance |-> Num(0)],
       age |-> Some(SecondsPerDay)],
      [additional |-> [certainty |-> Null, distance |-> Num(3)], age |-> Some(0)],
      [additional |-> [distance |-> Num(3)], age |-> Some(-5)],
      [additional |-> [distance |-> Num(ScoreScale + 5)], age |-> Some(SecondsPerDay \div 2)],
      [additional |-> [distance |-> Str], age |-> None] }

\* the k-th raw hit of a reply; a hit without age carries no "ts" property
RawHit(k, kind, now) ==
    [message_id |-> k, additional |-> kind.additional,
     ts |-> IF kind.age = None THEN None ELSE Some(now - kind.age[1])]

HitLists(now) ==
    { [k \in 1..Len(kinds) |-> RawHit(k, kinds[k], now)] :
        kinds \in SeqsUpTo(HitKinds, MaxHits) }

----------------------------------------------------------------------------
(* Scores.  Floats are exact rationals here.  With D = now_ts - min_ts and  *)
(* e = 1e-9, a recency score is (p + q*e) / (D + e) and a final score is    *)
(* (p + q*e) / (ScoreScale^2 * (D + e)); both are kept as the pair [p, q].  *)
(* Timestamps are whole seconds, so p decides an order and q breaks ties.   *)

Form(p, q) == [p |-> p, q |-> q]
FormLeq(x, y) == x.p < y.p \/ (x.p = y.p /\ x.q <= y.q)
FormLess(x, y) == ~FormLeq(y, x)

Min(a, b) == IF a <= b THEN a ELSE b
Max(a, b) == IF a >= b THEN a ELSE b

\* _compute_recency_score without the upper clamp
RecencyNoUpperClamp(ts, min_ts, now_ts) ==
    IF ts <= min_ts THEN Form(0, 0)
    ELSE Form(ts - min_ts, 0)

\* the lower clamp of line 184 left out
RecencyNoLowerClamp(ts, min_ts, now_ts) ==
    IF ts >= now_ts THEN Form(now_ts - min_ts, 1) ELSE Form(ts - min_ts, 0)

\* lines 180-188; 1.0 is (D + e) / (D + e)
compute_recency_score(ts, min_ts, now_ts) ==
    IF ts <= min_ts THEN Form(0, 0)
    ELSE IF ts >= now_ts THEN Form(now_ts - min_ts, 1)
    ELSE Form(ts - min_ts, 0)

Score(v) == [raised |-> FALSE, v |-> v]
ScoreRaised == [raised |-> TRUE, v |-> 0]

\* lines 191-208; float(None) and float("n/a") raise, which only the
\* distance branch catches
extract_semantic_score(additional) ==
    IF "certainty" \in DOMAIN additional
    THEN IF additional.certainty.kind = "num"
         THEN Score(additional.certainty.v)
         ELSE ScoreRaised
    ELSE IF "distance" \in DOMAIN additional /\ additional.distance.kind = "num"
         THEN Score(Max(0, Min(ScoreScale, ScoreScale - additional.distance.v)))
         ELSE Score(0)

\* the threshold applied to the blended score
BelowFinalThreshold(semantic_score, final_score, req, window) ==
    FormLess(final_score, Form(req.min_score * ScoreScale * window, req.min_score * ScoreScale))

\* line 495
BelowThreshold(semantic_score, final_score, req, window) ==
    semantic_score < req.min_score

\* the two weights exchanged
final_score_swapped(semantic_score, recency_score, req, window) ==
    Form(req.recency_weight * semantic_score * window
            + (ScoreScale - req.recency_weight) * ScoreScale * recency_score.p,
         req.recency_weight * semantic_score
            + (ScoreScale - req.recency_weight) * ScoreScale * recency_score.q)

\* the semantic score not weighted: semantic + w * recency
final_score_unweighted(semantic_score, recency_score, req, window) ==
    Form(ScoreScale * semantic_score * window
            + req.recency_weight * ScoreScale * recency_score.p,
         ScoreScale * semantic_score
            + req.recency_weight * ScoreScale * recency_score.q)

\* the age blended in place of the recency: (1 - w) * semantic + w * (1 - recency)
final_score_inverted(semantic_score, recency_score, req, window) ==
    Form((ScoreScale - req.recency_weight) * semantic_score * window
            + req.recency_weight * ScoreScale * (window - recency_score.p),
         (ScoreScale - req.recency_weight) * semantic_score
            + req.recency_weight * ScoreScale * (1 - recency_score.q))

\* lines 501-504, over the denominator ScoreScale^2 * (D + e)
final_score(semantic_score, recency_score, req, window) ==
    Form((ScoreScale - req.recency_weight) * semantic_score * window
            + req.recency_weight * ScoreScale * recency_score.p,
         (ScoreScale - req.recency_weight) * semantic_score
            + req.recency_weight * ScoreScale * recency_score.q)

\* lines 506-519
SearchResultItem(hit, ts_val, semantic_score, recency_score, final) ==
    [message_id |-> hit.message_id, ts |-> ts_val,
     semantic_score |-> semantic_score, recency_score |-> recency_score,
     final_score |-> final]

\* lines 492-519: the scoring loop over hits[k..]
RECURSIVE ScoreHits(_, _, _, _, _, _)
ScoreHits(hits, k, min_ts, now_ts, req, scored_results) ==
    IF k > Len(hits) THEN [raised |-> FALSE, results |-> scored_results]
    ELSE LET hit == hits[k]
             sem == extract_semantic_score(hit.additional)
             ts_val == IF hit.ts = None THEN 0 ELSE hit.ts[1]
             rec == compute_recency_score(ts_val, min_ts, now_ts)
             fin == final_score(sem.v, rec, req, now_ts - min_ts)
         IN  IF sem.raised THEN [raised |-> TRUE, results |-> <<>>]
             ELSE IF BelowThreshold(sem.v, fin, req, now_ts - min_ts)
                  THEN ScoreHits(hits, k + 1, min_ts, now_ts, req, scored_results)
                  ELSE ScoreHits(hits, k + 1, min_ts, now_ts, req,
                                 Append(scored_results,
                                        SearchResultItem(hit, ts_val, sem.v, rec, fin)))

\* an unstable insertion: x goes before the elements of equal score
InsertDescBeforeTies(sorted, x) ==
    LET n == Cardinality({j \in 1..Len(sorted) :
                            FormLess(x.final_score, sorted[j].final_score)})
    IN  SubSeq(sorted, 1, n) \o <<x>> \o SubSeq(sorted, n + 1, Len(sorted))

\* position of x in a list sorted by final_score descending: after every
\* element whose score is not smaller (list.sort is stable, also with reverse)
InsertDesc(sorted, x) ==
    LET n == Cardinality({j \in 1..Len(sorted) :
                            FormLeq(x.final_score, sorted[j].final_score)})
    IN  SubSeq(sorted, 1, n) \o <<x>> \o SubSeq(sorted, n + 1, Len(sorted))

RECURSIVE SortDesc(_, _, _)
SortDesc(items, k, sorted) ==
    IF k > Len(items) THEN sorted
    ELSE SortDesc(items, k + 1, InsertDesc(sorted, items[k]))

\* a slice that stops one short
TruncateOneShort(items, top_k) == SubSeq(items, 1, Min(top_k - 1, Len(items)))

\* line 523: scored_results[: req.top_k]
Truncate(items, top_k) == SubSeq(items, 1, Min(top_k, Len(items)))

\* lines 490-526
RankHits(hits, min_ts, now_ts, req) ==
    LET scored == ScoreHits(hits, 1, min_ts, now_ts, req, <<>>)
    IN  IF scored.raised THEN scored
        ELSE [raised |-> FALSE,
              results |-> Truncate(SortDesc(scored.results, 1, <<>>), req.top_k)]

\* line 437
MinTs(req, now_ts) == now_ts - req.timeframe_days * SecondsPerDay

----------------------------------------------------------------------------
(* search_similar *)

NoReply == [failed |-> FALSE, hits |-> <<>>]

\* a request that has arrived: the request, the clock, and what the store
\* would answer to the query (raw hits, or a WeaviateBaseError when failed)
Pending(req, now_ts, reply) ==
    [handled |-> FALSE, req |-> req, now_ts |-> now_ts, reply |-> reply,
     status |-> 0, results |-> <<>>, queries |-> 0, where_filter |-> None]

NoSearch == Pending(SearchRequest(None, None, 1, 1, 0, 0), 0, NoReply)

\* a candidate list handed to the ranking loop
Candidates(req, now_ts, hits) ==
    [done |-> FALSE, req |-> req, now_ts |-> now_ts, hits |-> hits,
     raised |-> FALSE, results |-> <<>>]

NoRanking == Candidates(SearchRequest(None, None, 1, 1, 0, 0), 0, <<>>)

\* the None test in place of the truthiness test
MissingConceptsNoneOnly(req) == req.query = None /\ req.topics = None

\* line 430
MissingConcepts(req) == ~TruthyStr(req.query) /\ ~TruthyList(req.topics)

\* lines 157-177
build_where_filter(workspace_id, min_ts) ==
    [operator |-> "And",
     operands |-> <<[path |-> <<"workspace_id">>, operator |-> "Equal",
                     valueString |-> workspace_id],
                    [path |-> <<"ts">>, operator |-> "GreaterThanEqual",
                     valueNumber |-> min_ts]>>]

\* lines 456-475: the query went out with this where filter
Queried(s, outcome) ==
    [outcome EXCEPT !.where_filter =
        Some(build_where_filter(s.req.workspace_id, MinTs(s.req, s.now_ts)))]

Outcome(s, status, results, queries) ==
    [s EXCEPT !.handled = TRUE, !.status = status, !.results = results,
              !.queries = queries]

\* lines 430-526
SearchSimilarResult(s) ==
    IF MissingConcepts(s.req)
    THEN Outcome(s, 400, <<>>, 0)
    ELSE IF ~HasAttr(s.req, "workspace_id")
         \* line 439: req.workspace_id raises AttributeError
         THEN Outcome(s, 500, <<>>, 0)
         ELSE IF s.reply.failed
              THEN Queried(s, Outcome(s, 500, <<>>, 1))
              ELSE LET out == RankHits(s.reply.hits, MinTs(s.req, s.now_ts),
                                       s.now_ts, s.req)
                   IN  IF out.raised
                       THEN Queried(s, Outcome(s, 500, <<>>, 1))
                       ELSE Queried(s, Outcome(s, 200, out.results, 1))

StoreReplies(now) ==
    { [failed |-> f, hits |-> h] :
        f \in BOOLEAN, h \in SeqsUpTo({RawHit(1, k, now) : k \in HitKinds}, 1) }

SearchSimilar ==
    /\ ~search.handled
    /\ search' = SearchSimilarResult(search)
    /\ UNCHANGED <<upsertVars, ranked, bootVars, fetchVars, slackVars>>

NextSearch == SearchSimilar

\* the ranking of lines 490-526 applied to a candidate list
Rank ==
    /\ ~ranked.done
    /\ LET out == RankHits(ranked.hits, MinTs(ranked.req, ranked.now_ts),
                           ranked.now_ts, ranked.req)
       IN  ranked' = [ranked EXCEPT !.done = TRUE, !.raised = out.raised,
                                    !.results = out.results]
    /\ UNCHANGED <<upsertVars, search, bootVars, fetchVars, slackVars>>

NextRank == Rank

----------------------------------------------------------------------------
(* embed_and_upsert *)

IdleCall ==
    [pc |-> "idle", messages |-> <<>>, i |-> 0, count |-> 0, resp |-> NoResponse,
     ops |-> <<>>, faulted |-> FALSE, run |-> 0,
     firstStore |-> <<>>, firstFaulted |-> FALSE, firstInserts |-> 0]

Inserts(ops) == Cardinality({k \in DOMAIN ops : ops[k].op = "insert"})

\* _call_with_retry has not been called
NoSlackCall ==
    [pc |-> "idle", log |-> <<>>, wait |-> 0, slept |-> 0, data |-> None,
     error |-> None]

\* no limit has been computed
NoFetch == [top_k |-> 1, raw_limit |-> None, done |-> FALSE]

\* init_weaviate has not been called
NoBoot ==
    [pc |-> "idle", attempt |-> 0, max_retries |-> 0, log |-> <<>>, slept |-> 0,
     client |-> None]

InitUpsert ==
    /\ weaviate_client = "unbound"
    /\ notFoundText \in NotFoundTexts
    /\ store = <<>>
    /\ call = [p \in Procs |-> IdleCall]
    /\ boot = NoBoot
    /\ fetch = NoFetch
    /\ slack = NoSlackCall

Init ==
    /\ InitUpsert
    /\ search = NoSearch
    /\ ranked = NoRanking

\* a search_similar request has arrived
InitSearch ==
    /\ InitUpsert
    /\ \E req \in SearchRequests, now \in Nows :
         \E reply \in StoreReplies(now) : search = Pending(req, now, reply)
    /\ ranked = NoRanking

\* a candidate list is handed to the ranking loop
InitRank ==
    /\ InitUpsert
    /\ search = NoSearch
    /\ \E now \in Nows :
         \E hits \in HitLists(now) :
            \E req \in { r \in SearchRequests : r.query = Some("pcb") /\ r.topics = None } :
               ranked = Candidates(req, now, hits)

\* vector_db.get_weaviate_client: the hosting process binds the client the
\* handlers read; it happens outside request handling.
Startup ==
    /\ weaviate_client = "unbound"
    /\ \A p \in Procs : call[p].pc = "idle"
    /\ weaviate_client' = "bound"
    /\ UNCHANGED <<notFoundText, store, call, searchVars, bootVars, fetchVars, slackVars>>

\* lines 287-291
Begin(c, msgs, runNo) ==
    IF msgs = <<>>
    THEN [c EXCEPT !.pc = "done", !.messages = msgs, !.run = runNo,
                   !.ops = <<>>, !.faulted = FALSE, !.i = 0, !.count = 0,
                   !.resp = [status |-> 200, upserted_count |-> 0]]
    ELSE [c EXCEPT !.pc = "get", !.messages = msgs, !.run = runNo,
                   !.ops = <<>>, !.faulted = FALSE, !.i = 1, !.count = 0,
                   !.resp = NoResponse]

Receive(p) ==
    /\ call[p].pc = "idle"
    /\ \E msgs \in Batches : call' = [call EXCEPT ![p] = Begin(IdleCall, msgs, 1)]
    /\ UNCHANGED <<weaviate_client, notFoundText, store, searchVars, bootVars, fetchVars, slackVars>>

\* the client sends the same batch again
Resubmit(p) ==
    /\ call[p].pc = "done"
    /\ call[p].run = 1
    /\ call' = [call EXCEPT ![p] =
                 Begin([call[p] EXCEPT !.firstStore = store,
                                       !.firstFaulted = call[p].faulted,
                                       !.firstInserts = Inserts(call[p].ops)],
                       call[p].messages, 2)]
    /\ UNCHANGED <<weaviate_client, notFoundText, store, searchVars, bootVars, fetchVars, slackVars>>

\* the response has been sent
Respond(p) ==
    /\ call[p].pc = "done"
    /\ call' = [call EXCEPT ![p] = IdleCall]
    /\ UNCHANGED <<weaviate_client, notFoundText, store, searchVars, bootVars, fetchVars, slackVars>>

\* lines 297-299: any exception of the loop becomes HTTP 500
Raised(c) == [c EXCEPT !.pc = "done", !.resp = HttpError(500)]

\* lines 295-296 and 301-303: the record is done, count it, go on or return
Counted(c) ==
    IF c.i = Len(c.messages)
    THEN [c EXCEPT !.pc = "done", !.count = c.count + 1,
                   !.resp = [status |-> 200, upserted_count |-> c.count + 1]]
    ELSE [c EXCEPT !.pc = "get", !.count = c.count + 1, !.i = c.i + 1]

\* lines 123-127: weaviate_client.collections.get
GetCollection(p) ==
    /\ call[p].pc = "get"
    /\ \E fault \in Faults :
        call' = [call EXCEPT ![p] =
                  IF weaviate_client = "unbound" THEN Raised(call[p])
                  ELSE IF fault # NoFault
                       THEN Raised([call[p] EXCEPT !.faulted = TRUE])
                       ELSE [call[p] EXCEPT !.pc = "update"]]
    /\ UNCHANGED <<weaviate_client, notFoundText, store, searchVars, bootVars, fetchVars, slackVars>>

OpEntry(c, kind, id, data, reply) ==
    [rec |-> c.i, op |-> kind, uuid |-> id, properties |-> data, result |-> reply]

\* lines 129-141, 152-154: collection.data.update and the branch on its outcome
Update(p) ==
    /\ call[p].pc = "update"
    /\ \E fault \in Faults :
        LET c == call[p]
            msg == c.messages[c.i]
            id == weaviate_id(slack_key(msg))
            data == UpsertData(msg)
            reply == UpdateReply(store, id, fault, notFoundText)
            logged == [c EXCEPT !.ops = Append(c.ops, OpEntry(c, "update", id, data, reply)),
                                !.faulted = c.faulted \/ fault # NoFault]
            branch == AfterUpdate(reply)
        IN  /\ store' = IF reply = Ok THEN Write(store, id, data) ELSE store
            /\ call' = [call EXCEPT ![p] =
                         CASE branch = "next" -> Counted(logged)
                           [] branch = "insert" -> [logged EXCEPT !.pc = "insert"]
                           [] OTHER -> Raised(logged)]
    /\ UNCHANGED <<weaviate_client, notFoundText, searchVars, bootVars, fetchVars, slackVars>>

\* lines 142-151: collection.data.insert with the same uuid and properties
Insert(p) ==
    /\ call[p].pc = "insert"
    /\ \E fault \in Faults :
        LET c == call[p]
            msg == c.messages[c.i]
            id == weaviate_id(slack_key(msg))
            data == UpsertData(msg)
            reply == InsertReply(store, id, fault)
            logged == [c EXCEPT !.ops = Append(c.ops, OpEntry(c, "insert", id, data, reply)),
                                !.faulted = c.faulted \/ fault # NoFault]
        IN  /\ store' = IF reply = Ok THEN Write(store, id, data) ELSE store
            /\ call' = [call EXCEPT ![p] =
                         IF reply = Ok THEN Counted(logged) ELSE Raised(logged)]
    /\ UNCHANGED <<weaviate_client, notFoundText, searchVars, bootVars, fetchVars, slackVars>>

Next ==
    \/ Startup
    \/ \E p \in Sequential : Receive(p)
    \/ \E p \in Sequential : Resubmit(p)
    \/ \E p \in Sequential : Respond(p)
    \/ \E p \in Sequential : GetCollection(p)
    \/ \E p \in Sequential : Update(p)
    \/ \E p \in Sequential : Insert(p)

\* two calls, each carrying one record of the same channel_id and ts, are in
\* flight at once; the message may be stored already
InitConcurrent ==
    /\ weaviate_client = "bound"
    /\ notFoundText \in NotFoundTexts
    /\ \E a, b \in Messages :
         /\ a.channel_id = b.channel_id
         /\ a.ts = b.ts
         /\ call = [p \in Procs |-> Begin(IdleCall, IF p = 1 THEN <<a>> ELSE <<b>>, 1)]
         /\ store \in {<<>>, Write(<<>>, weaviate_id(slack_key(a)), UpsertData(a))}
    /\ search = NoSearch
    /\ ranked = NoRanking
    /\ boot = NoBoot
    /\ fetch = NoFetch
    /\ slack = NoSlackCall

\* the store serialises the operations; the two handlers interleave freely
NextConcurrent ==
    \/ \E p \in Procs : GetCollection(p)
    \/ \E p \in Procs : Update(p)
    \/ \E p \in Procs : Insert(p)

\* vector_db.py line 78: init_weaviate is entered, attempt = 1 (line 81)
InitBoot ==
    /\ weaviate_client = "unbound"
    /\ notFoundText \in NotFoundTexts
    /\ store = <<>>
    /\ call = [p \in Procs |-> IdleCall]
    /\ search = NoSearch
    /\ ranked = NoRanking
    /\ \E m \in 1..MaxRetries :
         boot = [NoBoot EXCEPT !.pc = "try", !.attempt = 1, !.max_retries = m]
    /\ fetch = NoFetch
    /\ slack = NoSlackCall

\* what one pass through the try block can end in: line 88 reached, or
\* connect_to_local / list_all raising into line 89 or line 91
ConnectOutcomes == {"connected", "not_ready", "probe_failed", "unexpected"}

\* lines 82-92: connect, probe, return the client or log the failure
Connect ==
    /\ boot.pc = "try"
    /\ \E outcome \in ConnectOutcomes :
         boot' = IF outcome = "connected"
                 THEN [boot EXCEPT !.pc = "returned", !.client = Some("client"),
                                   !.log = Append(boot.log, outcome)]
                 ELSE [boot EXCEPT !.pc = "check", !.log = Append(boot.log, outcome)]
    /\ UNCHANGED <<upsertVars, searchVars, fetchVars, slackVars>>

\* the last-attempt test skipped by one
ShouldRaiseLate(attempt, max_retries) == attempt > max_retries

\* line 94
ShouldRaise(attempt, max_retries) == attempt = max_retries

\* lines 94-96: after a failed attempt; the bare raise has no active
\* exception left and raises RuntimeError
GiveUpOrRetry ==
    /\ boot.pc = "check"
    /\ boot' = IF ShouldRaise(boot.attempt, boot.max_retries)
               THEN [boot EXCEPT !.pc = "raised"]
               ELSE [boot EXCEPT !.pc = "sleep"]
    /\ UNCHANGED <<upsertVars, searchVars, fetchVars, slackVars>>

\* line 97 and the loop header of line 81: wait, then the next attempt, or
\* the end of the range and of the function (return None)
Sleep ==
    /\ boot.pc = "sleep"
    /\ boot' = IF boot.attempt + 1 <= boot.max_retries
               THEN [boot EXCEPT !.pc = "try", !.attempt = boot.attempt + 1,
                                 !.slept = boot.slept + Delay]
               ELSE [boot EXCEPT !.pc = "fell_through", !.slept = boot.slept + Delay]
    /\ UNCHANGED <<upsertVars, searchVars, fetchVars, slackVars>>

NextBoot == Connect \/ GiveUpOrRetry \/ Sleep

\* a request with a top_k the field bounds of lines 67-72 accept
InitFetch ==
    /\ weaviate_client = "unbound"
    /\ notFoundText \in NotFoundTexts
    /\ store = <<>>
    /\ call = [p \in Procs |-> IdleCall]
    /\ search = NoSearch
    /\ ranked = NoRanking
    /\ boot = NoBoot
    /\ \E k \in 1..TopKLimit : fetch = [NoFetch EXCEPT !.top_k = k]
    /\ slack = NoSlackCall

\* the limit without its cap
raw_limit_uncapped(top_k) == top_k * 3

\* line 454
raw_limit(top_k) == Min(top_k * 3, 200)

\* line 454: the limit is computed for the request
ComputeRawLimit ==
    /\ ~fetch.done
    /\ fetch' = [fetch EXCEPT !.raw_limit = Some(raw_limit(fetch.top_k)), !.done = TRUE]
    /\ UNCHANGED <<upsertVars, searchVars, bootVars, slackVars>>

NextFetch == ComputeRawLimit

----------------------------------------------------------------------------
(* slack_data_mcp_server.py: SlackDataClient._call_with_retry *)

\* what the Slack Web API answers to one call: the response data, or a
\* SlackApiError carrying a response (status code, headers) or none
Success(d) == [kind |-> "ok", data |-> d, status_code |-> 200, headers |-> None]
ApiError(code, retry_after) ==
    [kind |-> "error", data |-> "error", status_code |-> code, headers |-> retry_after]
ErrorNoResponse == [kind |-> "no_response", data |-> "error", status_code |-> 0, headers |-> None]

\* values of the Retry-After header: absent, "3", "10", and an HTTP date
RetryAfterHeaders == {None, Some(<<"3">>), Some(<<"1", "0">>), Some(<<"F", "r", "i">>)}

SlackResponses ==
    {Success(d) : d \in {"page1", "page2"}}
       \cup {ApiError(429, h) : h \in RetryAfterHeaders}
       \cup {ApiError(500, None), ApiError(403, Some(<<"3">>)), ErrorNoResponse}

Digits == <<"0", "1", "2", "3", "4", "5", "6", "7", "8", "9">>

IsDigit(ch) == \E d \in DOMAIN Digits : Digits[d] = ch

DigitValue(ch) == (CHOOSE d \in DOMAIN Digits : Digits[d] = ch) - 1

\* int(text) of a text of decimal digits
RECURSIVE IntOf(_)
IntOf(text) ==
    IF text = <<>> THEN 0
    ELSE 10 * IntOf(SubSeq(text, 1, Len(text) - 1)) + DigitValue(text[Len(text)])

\* does int(text) return (rather than raise ValueError) ?
IsInt(text) == text # <<>> /\ \A k \in DOMAIN text : IsDigit(text[k])

\* line 46: headers.get("Retry-After", "1")
RetryAfterText(headers) == IF headers = None THEN <<"1">> ELSE headers[1]

\* every error that carries a response is retried
ShouldRetryAnyError(e) == e.kind = "error"

\* line 45
ShouldRetry(e) == e.kind = "error" /\ e.status_code = 429

\* the trailing run of 429 answers in the log
RECURSIVE RateLimitedInARow(_)
RateLimitedInARow(log) ==
    IF log = <<>> \/ log[Len(log)].status_code # 429 THEN 0
    ELSE 1 + RateLimitedInARow(SubSeq(log, 1, Len(log) - 1))

\* line 34: the method is called for the first time
InitSlack ==
    /\ weaviate_client = "unbound"
    /\ notFoundText \in NotFoundTexts
    /\ store = <<>>
    /\ call = [p \in Procs |-> IdleCall]
    /\ search = NoSearch
    /\ ranked = NoRanking
    /\ boot = NoBoot
    /\ fetch = NoFetch
    /\ slack = [NoSlackCall EXCEPT !.pc = "call"]

\* lines 39-59: one pass of the loop up to the return, the raise or the sleep;
\* the API answers 429 at most MaxRateLimited times in a row
CallMethod ==
    /\ slack.pc = "call"
    /\ \E resp \in SlackResponses :
         /\ resp.status_code = 429 => RateLimitedInARow(slack.log) < MaxRateLimited
         /\ LET logged == [slack EXCEPT !.log = Append(slack.log, resp)]
            IN  slack' =
                  IF resp.kind = "ok"
                  THEN [logged EXCEPT !.pc = "returned", !.data = Some(resp.data)]
                  ELSE IF ShouldRetry(resp)
                       THEN IF IsInt(RetryAfterText(resp.headers))
                            THEN [logged EXCEPT !.pc = "sleep",
                                                !.wait = IntOf(RetryAfterText(resp.headers))]
                            ELSE [logged EXCEPT !.pc = "raised",
                                                !.error = Some("ValueError")]
                       ELSE [logged EXCEPT !.pc = "raised", !.error = Some("SlackApiError")]
    /\ UNCHANGED <<upsertVars, searchVars, bootVars, fetchVars>>

\* lines 52-53: time.sleep(retry_after); continue
SleepRetry ==
    /\ slack.pc = "sleep"
    /\ slack' = [slack EXCEPT !.pc = "call", !.slept = slack.slept + slack.wait,
                              !.wait = 0]
    /\ UNCHANGED <<upsertVars, searchVars, bootVars, fetchVars>>

NextSlack == CallMethod \/ SleepRetry

vars == <<weaviate_client, notFoundText, store, call, search, ranked, boot, fetch, slack>>

Spec == Init /\ [][Next]_vars

SpecSearch == InitSearch /\ [][NextSearch]_vars

SpecRank == InitRank /\ [][NextRank]_vars

SpecConcurrent == InitConcurrent /\ [][NextConcurrent]_vars

SpecFetch == InitFetch /\ [][NextFetch]_vars

\* _call_with_retry runs in one thread; each API call and each sleep returns
SpecSlack == InitSlack /\ [][NextSlack]_vars /\ WF_vars(NextSlack)

\* init_weaviate runs in one thread and every call it makes returns or raises
SpecBoot == InitBoot /\ [][NextBoot]_vars /\ WF_vars(NextBoot)

----------------------------------------------------------------------------
(* Properties of embed_and_upsert *)

\* records of the call whose upsert ended in an error that was raised
FailedRecs(c) ==
    { c.ops[k].rec : k \in { j \in DOMAIN c.ops :
          /\ c.ops[j].result # Ok
          /\ \/ c.ops[j].op = "insert"
             \/ AfterUpdate(c.ops[j].result) = "raise" } }

Attempted(c, r) == \E k \in DOMAIN c.ops : c.ops[k].rec = r /\ c.ops[k].op = "update"

Written(c) == Cardinality({k \in DOMAIN c.ops : c.ops[k].result = Ok})

AllUpdatesOk(c) ==
    \A k \in DOMAIN c.ops : c.ops[k].op = "update" /\ c.ops[k].result = Ok

\* C1: running embed_and_upsert a second time with the same batch, with no
\* store error other than not-found in either run, leaves the store as the
\* first run left it, and the second run issues no insert.
C1_UpsertIdempotent ==
    \A p \in Procs :
        (/\ call[p].pc = "done"
         /\ call[p].run = 2
         /\ ~call[p].firstFaulted
         /\ ~call[p].faulted)
        => /\ store = call[p].firstStore
           /\ Inserts(call[p].ops) = 0

\* a clean second run over two records, all updates, after a first run that inserted
C1_Witness ==
    \E p \in Procs :
        /\ call[p].pc = "done"
        /\ call[p].run = 2
        /\ ~call[p].firstFaulted
        /\ ~call[p].faulted
        /\ call[p].firstInserts >= 1
        /\ call[p].resp.status = 200
        /\ Len(call[p].ops) = Len(call[p].messages)
        /\ Len(call[p].messages) >= 2
        /\ AllUpdatesOk(call[p])

\* C2: when a record of the batch fails with a store error, the call does
\* not raise and reports exactly the number of records written.
C2_PartialSuccessReported ==
    \A p \in Procs :
        (call[p].pc = "done" /\ FailedRecs(call[p]) # {})
        => /\ call[p].resp.status = 200
           /\ call[p].resp.upserted_count = Written(call[p])

\* C3: every record after a failed one is still attempted against the store.
C3_LaterRecordsAttempted ==
    \A p \in Procs :
        call[p].pc = "done"
        => \A f \in FailedRecs(call[p]) :
             \A r \in (f + 1)..Len(call[p].messages) : Attempted(call[p], r)

\* C4: each record starts with an update by the derived id and the full
\* field set; an insert follows only an update that reported not-found, with
\* the same id and fields; a successful update is followed by no insert; an
\* update failing with another store error is followed by no insert and the
\* call raises.
C4_UpdateFirstInsertOnNotFound ==
    \A p \in Procs :
        LET c == call[p]
        IN  \A k \in DOMAIN c.ops :
              /\ c.ops[k].uuid = weaviate_id(slack_key(c.messages[c.ops[k].rec]))
              /\ c.ops[k].properties = UpsertData(c.messages[c.ops[k].rec])
              /\ c.ops[k].op = "insert"
                 => /\ k > 1
                    /\ c.ops[k - 1].op = "update"
                    /\ c.ops[k - 1].rec = c.ops[k].rec
                    /\ c.ops[k - 1].uuid = c.ops[k].uuid
                    /\ c.ops[k - 1].properties = c.ops[k].properties
                    /\ c.ops[k - 1].result.category = "not_found"
              /\ (c.ops[k].op = "update" /\ c.ops[k].result.category = "other")
                 => /\ c.pc = "done"
                    /\ c.resp.status = 500
                    /\ k = Len(c.ops)

\* C5: the insert fallback is taken exactly when the category of the update
\* error is not-found, whatever the text of the error.
C5_StructuralNotFound ==
    \A p \in Procs :
        LET c == call[p]
        IN  \A k \in DOMAIN c.ops :
              c.ops[k].op = "update" /\ c.ops[k].result # Ok
              => (c.ops[k].result.category = "not_found"
                  <=> (c.pc = "insert" \/ (k < Len(c.ops) /\ c.ops[k + 1].op = "insert")))

----------------------------------------------------------------------------
(* Properties of search_similar and of its ranking loop *)

Window(req) == req.timeframe_days * SecondsPerDay

ReturnedIds(results) == { results[j].message_id : j \in DOMAIN results }

\* hits of the candidate list whose extracted semantic score passes min_score
Qualifying(hits, req) ==
    { k \in DOMAIN hits :
        LET sem == extract_semantic_score(hits[k].additional)
        IN  ~sem.raised /\ sem.v >= req.min_score }

\* C6: a request with neither a query nor topics is answered 400 and no
\* query is sent to the store for it.
C6_RejectedBeforeStore ==
    (/\ search.handled
     /\ ~TruthyStr(search.req.query)
     /\ ~TruthyList(search.req.topics))
    => /\ search.status = 400
       /\ search.queries = 0

\* such a request, rejected while the store had a hit to return
C6_Witness ==
    /\ search.handled
    /\ search.req.query = None
    /\ search.req.topics = None
    /\ search.reply.hits # <<>>
    /\ ~search.reply.failed
    /\ search.status = 400
    /\ search.queries = 0

\* C7: a valid request for which the store has no hits is answered with
\* results = [] and no error.
C7_EmptyCandidatesEmptyResults ==
    (/\ search.handled
     /\ TruthyStr(search.req.query) \/ TruthyList(search.req.topics)
     /\ ~search.reply.failed
     /\ search.reply.hits = <<>>)
    => /\ search.status = 200
       /\ search.results = <<>>

\* C8: no hit whose extracted semantic score is below min_score is among
\* the results, whatever its timestamp and the recency weight.
C8_ThresholdEnforced ==
    ranked.done
    => \A k \in DOMAIN ranked.hits :
         LET sem == extract_semantic_score(ranked.hits[k].additional)
         IN  (~sem.raised /\ sem.v < ranked.req.min_score)
             => k \notin ReturnedIds(ranked.results)

\* a hit below the threshold with the best recency and recency_weight = 1 is
\* left out while another hit is returned
C8_Witness ==
    /\ ranked.done
    /\ ~ranked.raised
    /\ ranked.results # <<>>
    /\ ranked.req.recency_weight = ScoreScale
    /\ \E k \in DOMAIN ranked.hits :
         /\ extract_semantic_score(ranked.hits[k].additional).v < ranked.req.min_score
         /\ ranked.hits[k].ts = Some(ranked.now_ts)
         /\ k \notin ReturnedIds(ranked.results)

C10_TopKLength ==
    ranked.done
    => Len(ranked.results)
         = Min(ranked.req.top_k, Cardinality(Qualifying(ranked.hits, ranked.req)))

\* the blended score of the k-th candidate, as the loop computes it
FinalOf(k) ==
    LET hit == ranked.hits[k]
        min_ts == MinTs(ranked.req, ranked.now_ts)
        ts_val == IF hit.ts = None THEN 0 ELSE hit.ts[1]
    IN  final_score(extract_semantic_score(hit.additional).v,
                    compute_recency_score(ts_val, min_ts, ranked.now_ts),
                    ranked.req, ranked.now_ts - min_ts)

\* C11: the results are in descending order of final_score, equal scores
\* keep the order of the store, and no qualifying hit that was cut off has a
\* strictly higher final_score than a returned one.
C11_SortedStableTopK ==
    ranked.done
    => /\ \A i, j \in DOMAIN ranked.results :
            i < j
            => /\ FormLeq(ranked.results[j].final_score, ranked.results[i].final_score)
               /\ ranked.results[j].final_score = ranked.results[i].final_score
                  => ranked.results[i].message_id < ranked.results[j].message_id
       /\ ~ranked.raised
          => \A k \in Qualifying(ranked.hits, ranked.req) \ ReturnedIds(ranked.results) :
               \A j \in DOMAIN ranked.results :
                  FormLeq(FinalOf(k), ranked.results[j].final_score)

\* two returned hits tie and stay in store order, the sort moved them ahead
\* of an earlier hit, and that qualifying hit was cut off
C11_Witness ==
    /\ ranked.done
    /\ ~ranked.raised
    /\ Len(ranked.results) = 2
    /\ ranked.results[1].final_score = ranked.results[2].final_score
    /\ ranked.results[1].message_id = 2
    /\ ranked.results[2].message_id = 3
    /\ 1 \in Qualifying(ranked.hits, ranked.req)
    /\ FormLess(FinalOf(1), ranked.results[2].final_score)

\* every returned item carries (1 - w) * semantic + w * recency
BlendHolds ==
    \A j \in DOMAIN ranked.results :
        LET r == ranked.results[j]
            w == ranked.req.recency_weight
        IN  /\ r.final_score.p = (ScoreScale - w) * r.semantic_score * Window(ranked.req)
                                   + w * ScoreScale * r.recency_score.p
            /\ r.final_score.q = (ScoreScale - w) * r.semantic_score
                                   + w * ScoreScale * r.recency_score.q

\* is x / ScoreScale the decimal c / 10 ?
IsTenths(x, c) == 10 * x = c * ScoreScale

CertaintyOf(k) == ranked.hits[k].additional.certainty.v

\* timeframe_days = 1, top_k = 2, recency_weight = 0.5 and the candidates
\* (0.9, now), (0.9, now - 43200), (0.2, now); min_score leaves the first two in
Scenario ==
    /\ ranked.done
    /\ ranked.req.timeframe_days = 1
    /\ ranked.req.top_k = 2
    /\ IsTenths(ranked.req.recency_weight, 5)
    /\ ranked.req.min_score * 10 <= 9 * ScoreScale
    /\ Len(ranked.hits) = 3
    /\ \A k \in 1..3 : "certainty" \in DOMAIN ranked.hits[k].additional
                       /\ ranked.hits[k].additional.certainty.kind = "num"
    /\ IsTenths(CertaintyOf(1), 9) /\ ranked.hits[1].ts = Some(ranked.now_ts)
    /\ IsTenths(CertaintyOf(2), 9) /\ ranked.hits[2].ts = Some(ranked.now_ts - 43200)
    /\ IsTenths(CertaintyOf(3), 2) /\ ranked.hits[3].ts = Some(ranked.now_ts)

\* the final score f, compared with the decimal c / 100
FinalCmp(f, c) ==
    LET lhs == Form(100 * f.p, 100 * f.q)
        rhs == Form(c * ScoreScale * ScoreScale * SecondsPerDay, c * ScoreScale * ScoreScale)
    IN  IF lhs = rhs THEN "eq" ELSE IF FormLess(lhs, rhs) THEN "lt" ELSE "gt"

\* C12 as stated: the blend formula, and in the scenario the output is
\* hit1, hit2 with final scores 0.95 and 0.70.
C12_ScenarioExact ==
    ranked.done
    => /\ BlendHolds
       /\ Scenario
          => /\ Len(ranked.results) = 2
             /\ ranked.results[1].message_id = 1
             /\ ranked.results[2].message_id = 2
             /\ FinalCmp(ranked.results[1].final_score, 95) = "eq"
             /\ FinalCmp(ranked.results[2].final_score, 70) = "eq"

\* C12, amended: the blend formula, and in the scenario the output is hit1,
\* hit2 with final scores 0.95 and a value just below 0.70: the 1e-9 of the
\* recency denominator keeps it under 0.70 by less than 1e-9.
C12_BlendAndScenario ==
    ranked.done
    => /\ BlendHolds
       /\ Scenario
          => /\ Len(ranked.results) = 2
             /\ ranked.results[1].message_id = 1
             /\ ranked.results[2].message_id = 2
             /\ FinalCmp(ranked.results[1].final_score, 95) = "eq"
             /\ FinalCmp(ranked.results[2].final_score, 70) = "lt"
             /\ 100 * ranked.results[2].final_score.p
                  = 70 * ScoreScale * ScoreScale * SecondsPerDay

C12_Witness ==
    /\ Scenario
    /\ ranked.req.min_score > 0
    /\ Len(ranked.results) = 2
    /\ ranked.results[2].recency_score = Form(43200, 0)

\* a score s / ScoreScale and a recency score, over the denominator of final_score
SemanticAsFinal(s) == Form(ScoreScale * s * Window(ranked.req), ScoreScale * s)
RecencyAsFinal(r) == Form(ScoreScale * ScoreScale * r.p, ScoreScale * ScoreScale * r.q)

\* C13: with recency_weight = 0 the final score is the semantic score, with
\* recency_weight = 1 it is the recency score.
C13_WeightExtremes ==
    ranked.done
    => \A j \in DOMAIN ranked.results :
         LET r == ranked.results[j]
         IN  /\ ranked.req.recency_weight = 0
                => r.final_score = SemanticAsFinal(r.semantic_score)
             /\ ranked.req.recency_weight = ScoreScale
                => r.final_score = RecencyAsFinal(r.recency_score)

\* recency_weight = 1 and a returned hit whose two scores differ
C13_Witness ==
    /\ ranked.done
    /\ ranked.req.recency_weight = ScoreScale
    /\ \E j \in DOMAIN ranked.results :
         LET r == ranked.results[j]
         IN  /\ SemanticAsFinal(r.semantic_score) # RecencyAsFinal(r.recency_score)
             /\ r.semantic_score > 0
             /\ r.recency_score.p > 0
             /\ r.final_score = RecencyAsFinal(r.recency_score)

\* C14: among the items of one response (one recency_weight), with equal
\* recency a higher semantic score never gives a lower final score, and with
\* equal semantic score a higher recency never gives a lower final score.
C14_BlendMonotone ==
    ranked.done
    => \A i, j \in DOMAIN ranked.results :
         LET a == ranked.results[i]
             b == ranked.results[j]
         IN  /\ (a.recency_score = b.recency_score /\ a.semantic_score <= b.semantic_score)
                => FormLeq(a.final_score, b.final_score)
             /\ (a.semantic_score = b.semantic_score
                 /\ FormLeq(a.recency_score, b.recency_score))
                => FormLeq(a.final_score, b.final_score)

\* two returned hits of equal semantic score and different recency, blended
\* with a weight strictly between 0 and 1
C14_Witness ==
    /\ ranked.done
    /\ ranked.req.recency_weight \notin {0, ScoreScale}
    /\ Len(ranked.results) = 2
    /\ ranked.results[1].semantic_score = ranked.results[2].semantic_score
    /\ FormLess(ranked.results[2].recency_score, ranked.results[1].recency_score)
    /\ FormLess(ranked.results[2].final_score, ranked.results[1].final_score)

BothDone == \A p \in Procs : call[p].pc = "done"

SomeCallSucceeded == \E p \in Procs : call[p].resp.status = 200

\* the properties the call of worker p sends
SentBy(p) == UpsertData(call[p].messages[1])

\* C15 as stated: two concurrent calls for the same (channel_id, ts) leave
\* exactly one object, and its state is the same whichever call arrives first,
\* that is, the state the order "call 1, then call 2" leaves (no store fault
\* other than the serialised operations' own outcomes).
C15_OrderIndependent ==
    (BothDone /\ SomeCallSucceeded /\ \A p \in Procs : ~call[p].faulted)
    => /\ Cardinality(DOMAIN store) = 1
       /\ \A id \in DOMAIN store : store[id] = SentBy(2)

\* C15, amended: two concurrent calls for the same (channel_id, ts) leave at
\* most one object, exactly one as soon as a call succeeded; it holds the
\* fields of one of the two calls, so the final state is the same in every
\* interleaving when the two calls carry the same fields.
C15_ConcurrentUpsertsOneObject ==
    /\ Cardinality(DOMAIN store) <= 1
    /\ BothDone
       => /\ SomeCallSucceeded => Cardinality(DOMAIN store) = 1
          /\ \A id \in DOMAIN store : store[id] \in {SentBy(1), SentBy(2)}
          /\ (SentBy(1) = SentBy(2) /\ SomeCallSucceeded)
             => \A id \in DOMAIN store : store[id] = SentBy(1)

\* both calls found no object and both inserted: one insert created the
\* object, the other was refused and its call answered 500
C15_Witness ==
    /\ BothDone
    /\ \A p \in Procs : Inserts(call[p].ops) = 1
    /\ \E p, q \in Procs :
         /\ call[p].resp.status = 200
         /\ call[q].resp.status = 500
         /\ ~call[q].faulted
         /\ SentBy(p) # SentBy(q)
         /\ \A id \in DOMAIN store : store[id] = SentBy(p)
    /\ Cardinality(DOMAIN store) = 1

\* the record an operation of the log was issued for
RecordOf(c, k) == c.messages[c.ops[k].rec]

\* C16: the object id depends on (channel_id, ts) only: operations issued for
\* records of equal channel_id and ts address the same id, whatever their
\* message_id, user_id, text or topics, and the update and the insert of one
\* record carry one id.
C16_IdFromChannelAndTs ==
    \A p \in Procs :
      \A k, l \in DOMAIN call[p].ops :
         (/\ RecordOf(call[p], k).channel_id = RecordOf(call[p], l).channel_id
          /\ RecordOf(call[p], k).ts = RecordOf(call[p], l).ts)
         => call[p].ops[k].uuid = call[p].ops[l].uuid

\* one batch addressed the same id for two records that differ in
\* message_id, text and topics
C16_Witness ==
    \E p \in Procs :
      \E k, l \in DOMAIN call[p].ops :
         /\ RecordOf(call[p], k).message_id # RecordOf(call[p], l).message_id
         /\ RecordOf(call[p], k).text # RecordOf(call[p], l).text
         /\ RecordOf(call[p], k).topics # RecordOf(call[p], l).topics
         /\ call[p].ops[k].uuid = call[p].ops[l].uuid
         /\ call[p].ops[k].result = Ok
         /\ call[p].ops[l].result = Ok

Failures(log) == {k \in DOMAIN log : log[k] # "connected"}

BootEnded == boot.pc \in {"returned", "raised", "fell_through"}

\* attempts are bounded, a success ends the run at once with the client, the
\* delay is slept between one failed attempt and the next only, and the run
\* ends without a client only by raising after max_retries failures
BootSafe ==
    /\ Len(boot.log) <= boot.max_retries
    /\ boot.attempt <= boot.max_retries
    /\ \A k \in DOMAIN boot.log : boot.log[k] = "connected" => k = Len(boot.log)
    /\ boot.pc = "returned"
       <=> (boot.log # <<>> /\ boot.log[Len(boot.log)] = "connected")
    /\ boot.pc = "returned" => boot.client = Some("client")
    /\ boot.pc # "fell_through"
    /\ boot.pc = "raised"
       => /\ Len(boot.log) = boot.max_retries
          /\ Failures(boot.log) = DOMAIN boot.log
          /\ boot.client = None
    /\ boot.slept = Delay * (boot.attempt - 1)
    /\ BootEnded => boot.slept = Delay * (Len(boot.log) - 1)

\* C17: init_weaviate makes at most max_retries attempts, returns the client
\* at the first attempt that connects and passes the probe, sleeps the delay
\* between consecutive failed attempts, and when every attempt fails ends by
\* raising; it always ends.
C17_BoundedRetry == []BootSafe /\ <>BootEnded

\* every attempt failed: max_retries attempts, a sleep between each two, raised
C17_Witness ==
    /\ boot.pc = "raised"
    /\ boot.max_retries = MaxRetries
    /\ Len(boot.log) = MaxRetries
    /\ boot.slept = Delay * (MaxRetries - 1)

\* C18: a valid search_similar request sends one store query, and its filter
\* is the conjunction of workspace_id = the request's workspace_id and
\* ts >= now - timeframe_days * 86400, with no condition on a score.
C18_NativeFilter ==
    (/\ search.handled
     /\ TruthyStr(search.req.query) \/ TruthyList(search.req.topics))
    => /\ search.queries = 1
       /\ search.where_filter # None
       /\ LET f == search.where_filter[1]
          IN  /\ f.operator = "And"
              /\ Len(f.operands) = 2
              /\ f.operands[1].path = <<"workspace_id">>
              /\ f.operands[1].operator = "Equal"
              /\ HasAttr(search.req, "workspace_id")
              /\ DOMAIN f.operands[1] = {"path", "operator", "valueString"}
              /\ f.operands[1].valueString = search.req.workspace_id
              /\ f.operands[2].path = <<"ts">>
              /\ f.operands[2].operator = "GreaterThanEqual"
              /\ DOMAIN f.operands[2] = {"path", "operator", "valueNumber"}
              /\ f.operands[2].valueNumber
                   = search.now_ts - search.req.timeframe_days * SecondsPerDay

\* C19: _extract_semantic_score returns a number for every shape of
\* _additional and never raises: the certainty when one is reported,
\* otherwise 1 - distance clamped to [0, 1], otherwise 0.
C19_ExtractFailSoft ==
    ranked.done
    => /\ ~ranked.raised
       /\ \A k \in DOMAIN ranked.hits :
            LET additional == ranked.hits[k].additional
                reported(key) == key \in DOMAIN additional /\ additional[key].kind = "num"
                sem == extract_semantic_score(additional)
            IN  /\ ~sem.raised
                /\ sem.v = IF reported("certainty") THEN additional.certainty.v
                           ELSE IF reported("distance")
                                THEN Max(0, Min(ScoreScale, ScoreScale - additional.distance.v))
                                ELSE 0

RecencyZero == Form(0, 0)
RecencyOne(req) == Form(Window(req), 1)

\* C20: with min_ts < now, the recency score of a returned hit is 0 when
\* ts <= min_ts, 1 when ts >= now, and otherwise strictly between 0 and 1; of
\* two hits the later one never has the lower recency score.
C20_RecencyShape ==
    ranked.done
    => LET min_ts == MinTs(ranked.req, ranked.now_ts)
       IN  /\ min_ts < ranked.now_ts
           /\ \A j \in DOMAIN ranked.results :
                LET r == ranked.results[j]
                IN  /\ r.ts <= min_ts => r.recency_score = RecencyZero
                    /\ r.ts >= ranked.now_ts => r.recency_score = RecencyOne(ranked.req)
                    /\ (min_ts < r.ts /\ r.ts < ranked.now_ts)
                       => /\ FormLess(RecencyZero, r.recency_score)
                          /\ FormLess(r.recency_score, RecencyOne(ranked.req))
           /\ \A i, j \in DOMAIN ranked.results :
                ranked.results[i].ts <= ranked.results[j].ts
                => FormLeq(ranked.results[i].recency_score, ranked.results[j].recency_score)

\* a hit exactly at min_ts scored 0 next to a hit inside the window
C20_Witness ==
    /\ ranked.done
    /\ \E i, j \in DOMAIN ranked.results :
         /\ ranked.results[i].ts = MinTs(ranked.req, ranked.now_ts)
         /\ ranked.results[i].recency_score = RecencyZero
         /\ ranked.results[j].ts > MinTs(ranked.req, ranked.now_ts)
         /\ ranked.results[j].ts < ranked.now_ts
         /\ FormLess(RecencyZero, ranked.results[j].recency_score)
         /\ FormLess(ranked.results[j].recency_score, RecencyOne(ranked.req))

\* C21: for every top_k from 1 to 100 the limit computed for the store query
\* is min(top_k * 3, 200), at least top_k and at most 200.
C21_OverFetchLimit ==
    fetch.done
    => /\ fetch.raw_limit # None
       /\ LET limit == fetch.raw_limit[1]
              k == fetch.top_k
          IN  /\ limit = IF k * 3 <= 200 THEN k * 3 ELSE 200
              /\ limit >= k
              /\ limit <= 200

\* the largest top_k, for which the cap of 200 applies
C21_Witness ==
    /\ fetch.done
    /\ fetch.top_k = TopKLimit
    /\ fetch.raw_limit = Some(200)

\* the step appends one operation to the log of worker p
Issued(p) == Len(call'[p].ops) = Len(call[p].ops) + 1

\* at most one stored object per (channel_id, ts)
OnePerKey ==
    \A id1, id2 \in DOMAIN store :
        (store[id1].channel_id = store[id2].channel_id /\ store[id1].ts = store[id2].ts)
        => id1 = id2

\* the store changes only by a successful update or insert, which puts the
\* fields of the record being upserted in the place of whatever its id held
\* and touches no other object
OverwritesInPlace ==
    /\ (\A p \in Procs : ~Issued(p)) => store' = store
    /\ \A p \in Procs :
         Issued(p)
         => LET e == call'[p].ops[Len(call'[p].ops)]
                msg == call[p].messages[e.rec]
            IN  IF e.result = Ok
                THEN /\ DOMAIN store' = DOMAIN store \cup {e.uuid}
                     /\ store'[e.uuid] = UpsertData(msg)
                     /\ \A id \in DOMAIN store : id # e.uuid => store'[id] = store[id]
                ELSE store' = store

\* C22: across any sequence of embed_and_upsert calls the store holds at most
\* one object per (channel_id, ts), and each successful upsert of a pair
\* overwrites that object's fields in place, so the object always carries the
\* fields of the pair's most recent successful upsert.
C22_NoDuplicates == []OnePerKey /\ [][OverwritesInPlace]_vars

\* one batch upserted two versions of a message: the first was inserted, the
\* second updated the same object, which now carries the second's fields
C22_Witness ==
    \E p \in Procs :
        /\ call[p].pc = "done"
        /\ call[p].resp.status = 200
        /\ Len(call[p].messages) = 2
        /\ UpsertData(call[p].messages[1]) # UpsertData(call[p].messages[2])
        /\ \E k, l \in DOMAIN call[p].ops :
             /\ k < l
             /\ call[p].ops[k].op = "insert" /\ call[p].ops[k].result = Ok
             /\ call[p].ops[l].op = "update" /\ call[p].ops[l].result = Ok
             /\ call[p].ops[k].uuid = call[p].ops[l].uuid
             /\ call[p].ops[k].rec = 1 /\ call[p].ops[l].rec = 2
             /\ store[call[p].ops[l].uuid] = UpsertData(call[p].messages[2])
        /\ Cardinality(DOMAIN store) = 1

IsRateLimit(resp) == resp.kind = "error" /\ resp.status_code = 429

\* the seconds a 429 answer asks for: its Retry-After, 1 when it has none
AskedWait(resp) == IF resp.headers = None THEN 1 ELSE IntOf(resp.headers[1])

\* the seconds asked for by the 429 answers of a log that were followed up
RECURSIVE Waited(_)
Waited(log) ==
    IF log = <<>> THEN 0
    ELSE Waited(SubSeq(log, 1, Len(log) - 1))
           + (IF IsRateLimit(log[Len(log)])
                 /\ (log[Len(log)].headers = None \/ IsInt(log[Len(log)].headers[1]))
              THEN AskedWait(log[Len(log)]) ELSE 0)

SlackEnded == slack.pc \in {"returned", "raised"}

\* the call is repeated only after a 429, after sleeping what the 429 asked
\* for; another error is raised at once; the first success is returned; a 429
\* is never given up on (unless its Retry-After is not a number)
SlackSafe ==
    /\ \A k \in DOMAIN slack.log : k < Len(slack.log) => IsRateLimit(slack.log[k])
    /\ \A k \in DOMAIN slack.log :
         LET resp == slack.log[k]
         IN  /\ resp.kind = "ok"
                => /\ slack.pc = "returned"
                   /\ slack.data = Some(resp.data)
             /\ (resp.kind # "ok" /\ ~IsRateLimit(resp))
                => /\ slack.pc = "raised"
                   /\ slack.error = Some("SlackApiError")
                   /\ slack.data = None
    /\ slack.pc = "returned"
       => (slack.log # <<>> /\ slack.log[Len(slack.log)].kind = "ok")
    /\ (slack.pc = "raised" /\ IsRateLimit(slack.log[Len(slack.log)]))
       => ~IsInt(RetryAfterText(slack.log[Len(slack.log)].headers))
    /\ slack.pc = "sleep" => slack.slept + slack.wait = Waited(slack.log)
    /\ slack.pc # "sleep" => slack.slept = Waited(slack.log)

\* C23: _call_with_retry repeats the call only after a 429, after waiting the
\* Retry-After seconds (1 without the header); any other Slack API error is
\* raised at once; the data of the first successful response is returned;
\* and the call ends when the API answers 429 only finitely often in a row.
C23_RateLimitRetry == []SlackSafe /\ <>SlackEnded

\* MaxRateLimited 429 answers in a row, one without Retry-After, were each
\* waited for, and the next answer's data was returned
C23_Witness ==
    /\ slack.pc = "returned"
    /\ Len(slack.log) = MaxRateLimited + 1
    /\ \E k \in 1..MaxRateLimited : slack.log[k].headers = None
    /\ slack.slept = Waited(slack.log)
    /\ slack.slept >= MaxRateLimited
    /\ slack.data = Some("page2")

====
